---- MODULE Spec2Model ----
(***************************************************************************)
(* Model of src/flux/model.py: the Flux transformer (class Flux) and its   *)
(* KV-aware subclass (class Flux_kv).                                      *)
(*                                                                         *)
(* Tensors are symbolic: a tensor is a record holding its rank, its batch  *)
(* size, its sequence dimension as a sequence of token labels, its feature *)
(* width, the list of layers that produced it (hist) and the conditioning  *)
(* vector those layers were given (cond).  Optional values (Python None,   *)
(* an absent dict key) are <<>>, present ones are <<v>>.                   *)
(***************************************************************************)
EXTENDS Integers, Sequences, FiniteSets, TLC

\* ---------------------------------------------------------------- bounds
MaxDepth == 2          \* largest params.depth tried
MaxSingleDepth == 2    \* largest params.depth_single_blocks tried
MaxTxtLen == 4         \* short text length tried next to PrefixLen
MaxImgLen == 10        \* image sequence length
MaxCalls == 2          \* forward calls made on one model

\* ------------------------------------------------------ program constants
PrefixLen == 512       \* the literal 512 of Flux_kv.forward's pe_mask slice
EmbedDim == 256        \* the literal 256 of timestep_embedding(..., 256)

None == <<>>
Some(v) == <<v>>
IsNone(o) == o = <<>>
Get(o) == o[1]

\* ------------------------------------------------------------- tensors
\* torch.cat((a, b), dim=1) on rank-3 tensors: sequence dimensions joined
Cat(a, b) ==
    [a EXCEPT !.toks = a.toks \o b.toks, !.hist = a.hist \o b.hist,
              !.cond = a.cond \cup b.cond]

\* x[:, n:, ...] : Python slice, clamped to the length
SliceFrom(s, n) == IF n >= Len(s) THEN <<>> ELSE SubSeq(s, n + 1, Len(s))

\* x[:, :n, ...] : Python slice, clamped to the length
SliceTo(s, n) == IF n >= Len(s) THEN s ELSE SubSeq(s, 1, n)

\* nn.Linear(_, width): new feature width, same leading shape
Linear(name, x, width) == [x EXCEPT !.feat = width, !.hist = Append(@, <<name, 0>>)]

\* ------------------------------------------------------- Flux.__init__
RECURSIVE SumSeq(_)
SumSeq(s) == IF s = <<>> THEN 0 ELSE s[1] + SumSeq(Tail(s))

ConfigCheckAxesUnchecked(p) ==
    IF p.num_heads = 0 THEN "ZeroDivisionError"
    ELSE IF p.hidden_size % p.num_heads # 0 THEN "ValueError:heads"
    ELSE "ok"

\* the two validations of __init__, in source order; Python's % raises on
\* a zero divisor
ConfigCheck(p) ==
    IF p.num_heads = 0 THEN "ZeroDivisionError"
    ELSE IF p.hidden_size % p.num_heads # 0 THEN "ValueError:heads"
    ELSE IF SumSeq(p.axes_dim) # p.hidden_size \div p.num_heads THEN "ValueError:axes"
    ELSE "ok"

\* self.out_channels = self.in_channels
OutChannels(p) == p.in_channels

\* the sub-modules __init__ creates after the validations, in source order
Components(p) ==
    <<"pe_embedder", "img_in", "time_in", "vector_in", "guidance_in", "txt_in">>
    \o [k \in 1..p.depth |-> "double_block"]
    \o [k \in 1..p.depth_single_blocks |-> "single_block"]
    \o <<"final_layer">>

\* ------------------------------------------------------ opaque layers
\* EmbedND: one positional row per id, a pure function of the id
EmbedND(ids) == [j \in 1..Len(ids) |-> 2 * ids[j] + 1]

\* DoubleStreamBlock(_kv).forward: both streams come back with their shape
DoubleStreamBlock(b, i, t, v) ==
    [img |-> [i EXCEPT !.hist = Append(@, <<"double", b>>), !.cond = v],
     txt |-> [t EXCEPT !.hist = Append(@, <<"double", b>>), !.cond = v]]

\* SingleStreamBlock(_kv).forward: the fused stream comes back with its shape
SingleStreamBlock(b, s, v) ==
    [s EXCEPT !.hist = Append(@, <<"single", b>>), !.cond = v]

\* a KV-aware block's cache write into info, addressed by info['id']
BlockCache(kind, inf) == [inf EXCEPT !.cache = @ \cup {<<kind, inf.id>>}]

\* LastLayer(hidden_size, 1, out_channels).forward
LastLayer(s, v, width) ==
    [s EXCEPT !.feat = width, !.hist = Append(@, <<"final_layer", 0>>), !.cond = v]

\* ------------------------------------------------- forward, shared pieces
\* img.ndim != 3 or txt.ndim != 3
BadRankImgOnly(i, t) == i.ndim # 3

BadRank(i, t) == i.ndim # 3 \/ t.ndim # 3

TimeTerm(t) == <<"time_in", t, EmbedDim>>
GuidanceTerm(g) == <<"guidance_in", g, EmbedDim>>
VectorTerm(y) == <<"vector_in", y, 0>>

CondVecDefaulted(ge, t, g, y) ==
    [err |-> "",
     vec |-> {TimeTerm(t), VectorTerm(y)}
             \cup (IF ge THEN {GuidanceTerm(IF IsNone(g) THEN 1 ELSE Get(g))} ELSE {}),
     ops |-> <<"time_in">> \o (IF ge THEN <<"guidance_in">> ELSE <<>>) \o <<"vector_in">>]

CondVecUngated(ge, t, g, y) ==
    IF ge /\ IsNone(g)
    THEN [err |-> "ValueError:guidance", vec |-> {}, ops |-> <<"time_in">>]
    ELSE [err |-> "",
          vec |-> {TimeTerm(t), VectorTerm(y)}
                  \cup (IF ~IsNone(g) THEN {GuidanceTerm(Get(g))} ELSE {}),
          ops |-> <<"time_in">> \o (IF ~IsNone(g) THEN <<"guidance_in">> ELSE <<>>)
                  \o <<"vector_in">>]

\* the conditioning vector: time embedding, guidance embedding when the
\* configuration enables it (mandatory then), pooled-vector embedding
CondVec(ge, t, g, y) ==
    IF ge /\ IsNone(g)
    THEN [err |-> "ValueError:guidance", vec |-> {}, ops |-> <<"time_in">>]
    ELSE [err |-> "",
          vec |-> {TimeTerm(t), VectorTerm(y)}
                  \cup (IF ge THEN {GuidanceTerm(Get(g))} ELSE {}),
          ops |-> <<"time_in">> \o (IF ge THEN <<"guidance_in">> ELSE <<>>)
                  \o <<"vector_in">>]

DropPrefixHead(s, t) == [s EXCEPT !.toks = SliceTo(s.toks, Len(t.toks))]

\* x[:, txt.shape[1]:, ...]
DropPrefix(s, t) == [s EXCEPT !.toks = SliceFrom(s.toks, Len(t.toks))]

\* what a failed prelude leaves behind: the error, the work done before it
Raised(e, done, inf) ==
    [err |-> e, ops |-> done, img |-> None, vec |-> {}, txt |-> None,
     pe |-> <<>>, zt_r |-> None, info |-> inf]

\* ------------------------------------------- Flux.forward, up to the loops
FluxPrelude(p, a) ==
    IF BadRank(a.img, a.txt) THEN Raised("ValueError:ndim", <<>>, None)
    ELSE LET c == CondVec(p.guidance_embed, a.timesteps, a.guidance, a.y)
             done == <<"img_in">> \o c.ops
         IN  IF c.err # "" THEN Raised(c.err, done, None)
             ELSE [err |-> "",
                   ops |-> done \o <<"txt_in", "cat_ids", "pe_embedder">>,
                   img |-> Linear("img_in", a.img, p.hidden_size),
                   vec |-> c.vec,
                   txt |-> Linear("txt_in", a.txt, p.hidden_size),
                   pe |-> EmbedND(a.txt_ids \o a.img_ids),
                   zt_r |-> None,
                   info |-> None]

\* ---------------------------------------- Flux_kv.forward, up to the loops
\* pe[:, :, mask_indices + 512, ...] : an index past the table raises
GatherRows(pe, mask, off) ==
    IF \E k \in 1..Len(mask) : mask[k] + off >= Len(pe)
    THEN None
    ELSE Some([k \in 1..Len(mask) |-> pe[mask[k] + off + 1]])

\* torch.cat((pe[:, :, :512, ...], pe[:, :, mask_indices+512, ...]), dim=2)
PeMask(pe, mask) ==
    LET rows == GatherRows(pe, mask, PrefixLen)
    IN  IF IsNone(rows) THEN None
        ELSE Some(SliceTo(pe, PrefixLen) \o Get(rows))

\* the tensor behind a zt_r argument: shaped like the image input
ZtTensor(a) == [a.img EXCEPT !.ndim = 3, !.hist = <<<<"zt_r", 0>>>>]

TargetBranchZtOptional(p, a, inf, pe, done) ==
    IF IsNone(inf.mask_indices)
    THEN Raised("KeyError:mask_indices", done, inf)
    ELSE LET m == PeMask(pe, Get(inf.mask_indices))
             read == done \o <<"read:mask_indices">>
         IN  IF IsNone(m) THEN Raised("IndexError:pe", read, inf)
             ELSE [err |-> "",
                   ops |-> read \o <<"write:pe_mask">>,
                   zt_r |-> IF IsNone(a.zt_r) THEN None
                            ELSE Some(Linear("img_in", ZtTensor(a), p.hidden_size)),
                   info |-> [inf EXCEPT !.pe_mask = m]]

\* the branch `if not info['inverse']`: zt_r projection, pe_mask derivation
TargetBranch(p, a, inf, pe, done) ==
    IF IsNone(a.zt_r) THEN Raised("TypeError:zt_r", done, inf)
    ELSE IF IsNone(inf.mask_indices)
    THEN Raised("KeyError:mask_indices", done \o <<"zt_in">>, inf)
    ELSE LET m == PeMask(pe, Get(inf.mask_indices))
             read == done \o <<"zt_in", "read:mask_indices">>
         IN  IF IsNone(m) THEN Raised("IndexError:pe", read, inf)
             ELSE [err |-> "",
                   ops |-> read \o <<"write:pe_mask">>,
                   zt_r |-> Some(Linear("img_in", ZtTensor(a), p.hidden_size)),
                   info |-> [inf EXCEPT !.pe_mask = m]]

KvPreludeAlwaysDerives(p, a, inf) ==
    LET f == FluxPrelude(p, a)
    IN  IF f.err # "" THEN [f EXCEPT !.info = inf]
        ELSE IF IsNone(inf.inverse)
        THEN Raised("KeyError:inverse", f.ops, inf)
        ELSE LET t == TargetBranch(p, a, inf, f.pe, f.ops \o <<"read:inverse">>)
             IN  IF t.err # "" THEN t
                 ELSE [f EXCEPT !.ops = t.ops, !.zt_r = t.zt_r, !.info = t.info]

\* lines 137-153 repeat Flux.forward's lines 88-102; then the branch on
\* info['inverse']
KvPrelude(p, a, inf) ==
    LET f == FluxPrelude(p, a)
    IN  IF f.err # "" THEN [f EXCEPT !.info = inf]
        ELSE IF IsNone(inf.inverse)
        THEN Raised("KeyError:inverse", f.ops, inf)
        ELSE LET done == f.ops \o <<"read:inverse">>
             IN  IF Get(inf.inverse)
                 THEN [f EXCEPT !.ops = done, !.zt_r = a.zt_r, !.info = inf]
                 ELSE LET t == TargetBranch(p, a, inf, f.pe, done)
                      IN  IF t.err # "" THEN t
                          ELSE [f EXCEPT !.ops = t.ops, !.zt_r = t.zt_r,
                                         !.info = t.info]

\* ------------------------------------------------------------------ state
VARIABLES
    pc,             \* "new", "ctor_error", "idle", "double", "single", "done", "error"
    kv,             \* TRUE: the object is a Flux_kv, FALSE: a plain Flux
    params,         \* self.params
    created,        \* sub-modules created by __init__, in order
    double_blocks,  \* self.double_blocks, as the list of block numbers
    single_blocks,  \* self.single_blocks
    args,           \* the arguments of the current forward call
    img, txt, vec, pe, zt_r, x, cnt,   \* locals of forward
    it,             \* position of the running for-loop in its list
    info, info_s,   \* the caller's mappings
    info0,          \* info as it was when the current call began
    err,            \* the exception raised, "" when none
    ops,            \* the transformer's own steps in this call, in order
    calls,          \* block and final-layer invocations of this call, in order
    out,            \* the returned tensor
    ncalls

vars == <<pc, kv, params, created, double_blocks, single_blocks, args, img, txt,
          vec, pe, zt_r, x, cnt, it, info, info_s, info0, err, ops, calls, out,
          ncalls>>

model == <<kv, params, created, double_blocks, single_blocks>>
locals == <<img, txt, vec, pe, zt_r, x, cnt, it>>

\* ----------------------------------------------------------------- inputs
Configs ==
    [in_channels : {4}, context_in_dim : {8},
     hidden_size : {4, 6}, num_heads : {0, 2, 4}, axes_dim : {<<1, 1>>},
     depth : {0, MaxDepth}, depth_single_blocks : {0, MaxSingleDepth},
     guidance_embed : BOOLEAN]

ImgTensor(n, nd, bs, width) ==
    [ndim |-> nd, batch |-> bs, toks |-> [i \in 1..n |-> -i],
     feat |-> width, hist |-> <<>>, cond |-> {}]

TxtTensor(l, nd, bs, width) ==
    [ndim |-> nd, batch |-> bs, toks |-> [k \in 1..l |-> k],
     feat |-> width, hist |-> <<>>, cond |-> {}]

\* <<text length, image length>>: a short text, a text of exactly the
\* prefix length, and a short text with an image longer than the prefix
Shapes == {<<MaxTxtLen, MaxImgLen>>, <<PrefixLen, MaxImgLen>>,
           <<MaxTxtLen, PrefixLen + MaxImgLen>>}
Ranks == {<<3, 3>>, <<2, 3>>, <<3, 4>>}
Batches == {1, 2}
MaskCases == {<<1, 3>>, <<MaxImgLen - 1, 0>>}

ArgCases(p) ==
    {[img |-> ImgTensor(sh[2], r[1], bs, p.in_channels),
      txt |-> TxtTensor(sh[1], r[2], bs, p.context_in_dim),
      img_ids |-> [i \in 1..sh[2] |-> -i], txt_ids |-> [k \in 1..sh[1] |-> k],
      timesteps |-> 9, y |-> 8, guidance |-> g, zt_r |-> z,
      inp_target_s |-> "inp_target_s"] :
        sh \in Shapes, r \in Ranks, bs \in Batches, g \in {None, Some(3)},
        z \in {None, Some("zt_r")}}

\* the mappings a caller may hand to Flux_kv.forward; stale entries stand for
\* what an earlier use of the mapping left in it
InfoCases ==
    {[inverse |-> v, mask_indices |-> m,
      pe_mask |-> IF stale THEN Some(<<99>>) ELSE None,
      id |-> IF stale THEN Some(7) ELSE None,
      cache |-> {}] :
        v \in {None, Some(TRUE), Some(FALSE)},
        m \in {None} \cup {Some(c) : c \in MaskCases},
        stale \in BOOLEAN}

InfoS == [inverse |-> Some(TRUE), mask_indices |-> None, pe_mask |-> None,
          id |-> Some(1), cache |-> {<<"double", 0>>}]

\* ------------------------------------------------------------------- Init
Init ==
    /\ pc = "new"
    /\ kv = FALSE
    /\ params = None
    /\ created = <<>>
    /\ double_blocks = <<>>
    /\ single_blocks = <<>>
    /\ args = None
    /\ img = None /\ txt = None /\ vec = {} /\ pe = <<>> /\ zt_r = None
    /\ x = None /\ cnt = 0 /\ it = 0
    /\ info = None /\ info_s = None /\ info0 = None
    /\ err = ""
    /\ ops = <<>>
    /\ calls = <<>>
    /\ out = None
    /\ ncalls = 0

\* --------------------------------------------------------------- __init__
\* Flux.__init__ / Flux_kv.__init__ (which only forwards to it)
Construct ==
    /\ pc = "new"
    /\ \E p \in Configs, k \in BOOLEAN :
         LET r == ConfigCheck(p)
         IN  /\ kv' = k
             /\ params' = Some(p)
             /\ IF r = "ok"
                THEN /\ pc' = "idle"
                     /\ err' = ""
                     /\ created' = Components(p)
                     /\ double_blocks' = [b \in 1..p.depth |-> b - 1]
                     /\ single_blocks' = [b \in 1..p.depth_single_blocks |-> b - 1]
                ELSE /\ pc' = "ctor_error"
                     /\ err' = r
                     /\ created' = <<>>
                     /\ double_blocks' = <<>>
                     /\ single_blocks' = <<>>
    /\ UNCHANGED <<args, locals, info, info_s, info0, ops, calls, out, ncalls>>

\* one entry of `calls`
Invocation(kind, b, i, t, s, v, table, inf, infs, z, aux) ==
    [kind |-> kind, blk |-> b, img |-> i, txt |-> t, x |-> s, vec |-> v,
     pe |-> table, info |-> inf, info_s |-> infs, zt_r |-> z,
     inp_target_s |-> aux]

\* ------------------------------------------------------------ Flux.forward
FluxForward ==
    /\ pc \in {"idle", "done", "error"}
    /\ ~kv
    /\ ncalls < MaxCalls
    /\ \E a \in {c \in ArgCases(Get(params)) : IsNone(c.zt_r)} :
         LET r == FluxPrelude(Get(params), a)
         IN  /\ args' = Some(a)
             /\ err' = r.err
             /\ ops' = r.ops
             /\ pc' = IF r.err = "" THEN "double" ELSE "error"
             /\ img' = r.img /\ txt' = r.txt /\ vec' = r.vec /\ pe' = r.pe
    /\ zt_r' = None /\ x' = None /\ cnt' = 0 /\ it' = 0
    /\ calls' = <<>>
    /\ out' = None
    /\ ncalls' = ncalls + 1
    /\ UNCHANGED <<model, info, info_s, info0>>

\* one pass of `for block in self.double_blocks`
FluxDouble ==
    /\ pc = "double" /\ ~kv
    /\ it < Len(double_blocks)
    /\ LET b == double_blocks[it + 1]
           r == DoubleStreamBlock(b, img, txt, vec)
       IN  /\ calls' = Append(calls, Invocation("double", b, img, txt, None, vec, pe,
                                                None, None, None, None))
           /\ img' = r.img
           /\ txt' = r.txt
    /\ it' = it + 1
    /\ UNCHANGED <<pc, model, args, vec, pe, zt_r, x, cnt, info, info_s, info0,
                   err, ops, out, ncalls>>

\* the loop is exhausted: img = torch.cat((txt, img), 1)
FluxConcat ==
    /\ pc = "double" /\ ~kv
    /\ it = Len(double_blocks)
    /\ img' = Cat(txt, img)
    /\ ops' = Append(ops, "cat")
    /\ it' = 0
    /\ pc' = "single"
    /\ UNCHANGED <<model, args, txt, vec, pe, zt_r, x, cnt, info, info_s, info0,
                   err, calls, out, ncalls>>

\* one pass of `for block in self.single_blocks`
FluxSingle ==
    /\ pc = "single" /\ ~kv
    /\ it < Len(single_blocks)
    /\ LET b == single_blocks[it + 1]
       IN  /\ calls' = Append(calls, Invocation("single", b, None, None, img, vec, pe,
                                                None, None, None, None))
           /\ img' = SingleStreamBlock(b, img, vec)
    /\ it' = it + 1
    /\ UNCHANGED <<pc, model, args, txt, vec, pe, zt_r, x, cnt, info, info_s, info0,
                   err, ops, out, ncalls>>

\* slice, final layer, return
FluxFinish ==
    /\ pc = "single" /\ ~kv
    /\ it = Len(single_blocks)
    /\ LET s == DropPrefix(img, txt)
           r == LastLayer(s, vec, OutChannels(Get(params)))
       IN  /\ calls' = Append(calls, Invocation("final", 0, None, None, s, vec, None,
                                                None, None, None, None))
           /\ img' = r
           /\ out' = Some(r)
    /\ ops' = ops \o <<"slice", "final_layer">>
    /\ pc' = "done"
    /\ UNCHANGED <<model, args, txt, vec, pe, zt_r, x, cnt, it, info, info_s, info0,
                   err, ncalls>>

\* --------------------------------------------------------- Flux_kv.forward
\* The first call receives fresh mappings; a later call receives the same
\* mappings again, the caller having set info['inverse'] for the new pass.
\* Later calls keep the sizes and the conditioning of the first.
KvInputs ==
    IF ncalls = 0
    THEN ArgCases(Get(params)) \X InfoCases
    ELSE {[Get(args) EXCEPT !.img.ndim = r[1], !.txt.ndim = r[2]] : r \in Ranks}
         \X {[info EXCEPT !.inverse = Some(v)] : v \in BOOLEAN}

KvForward ==
    /\ pc \in {"idle", "done", "error"}
    /\ kv
    /\ ncalls < MaxCalls
    /\ \E c \in KvInputs :
         LET r == KvPrelude(Get(params), c[1], c[2])
         IN  /\ args' = Some(c[1])
             /\ info0' = c[2]
             /\ info' = r.info
             /\ err' = r.err
             /\ ops' = r.ops
             /\ pc' = IF r.err = "" THEN "double" ELSE "error"
             /\ img' = r.img /\ txt' = r.txt /\ vec' = r.vec /\ pe' = r.pe
             /\ zt_r' = r.zt_r
    /\ info_s' = IF ncalls = 0 THEN InfoS ELSE info_s
    /\ x' = None /\ cnt' = 0 /\ it' = 0
    /\ calls' = <<>>
    /\ out' = None
    /\ ncalls' = ncalls + 1
    /\ UNCHANGED model

\* one pass of the dual-stream loop: info['id'] = cnt; block(...); cnt += 1
KvDouble ==
    /\ pc = "double" /\ kv
    /\ it < Len(double_blocks)
    /\ LET b == double_blocks[it + 1]
           seen == [info EXCEPT !.id = Some(cnt)]
           r == DoubleStreamBlock(b, img, txt, vec)
       IN  /\ calls' = Append(calls, Invocation("double", b, img, txt, None, vec, pe,
                                                seen, info_s, zt_r,
                                                Get(args).inp_target_s))
           /\ info' = BlockCache("double", seen)
           /\ img' = r.img
           /\ txt' = r.txt
    /\ ops' = Append(ops, "write:id")
    /\ cnt' = cnt + 1
    /\ it' = it + 1
    /\ UNCHANGED <<pc, model, args, vec, pe, zt_r, x, info_s, info0, err, out, ncalls>>

\* the loop is exhausted: cnt = 0; x = torch.cat((txt, img), 1)
KvConcatKeepCnt ==
    /\ pc = "double" /\ kv
    /\ it = Len(double_blocks)
    /\ x' = Cat(txt, img)
    /\ ops' = Append(ops, "cat")
    /\ it' = 0
    /\ pc' = "single"
    /\ UNCHANGED <<model, args, img, txt, vec, pe, zt_r, cnt, info, info_s, info0,
                   err, calls, out, ncalls>>

KvConcat ==
    /\ pc = "double" /\ kv
    /\ it = Len(double_blocks)
    /\ cnt' = 0
    /\ x' = Cat(txt, img)
    /\ ops' = Append(ops, "cat")
    /\ it' = 0
    /\ pc' = "single"
    /\ UNCHANGED <<model, args, img, txt, vec, pe, zt_r, info, info_s, info0,
                   err, calls, out, ncalls>>

KvSingleUnthreaded ==
    /\ pc = "single" /\ kv
    /\ it < Len(single_blocks)
    /\ LET b == single_blocks[it + 1]
           seen == [info EXCEPT !.id = Some(cnt)]
           fused == Cat(txt, img)
       IN  /\ calls' = Append(calls, Invocation("single", b, None, None, fused, vec, pe,
                                                seen, info_s, zt_r,
                                                Get(args).inp_target_s))
           /\ info' = BlockCache("single", seen)
           /\ x' = SingleStreamBlock(b, fused, vec)
    /\ ops' = Append(ops, "write:id")
    /\ cnt' = cnt + 1
    /\ it' = it + 1
    /\ UNCHANGED <<pc, model, args, img, txt, vec, pe, zt_r, info_s, info0, err, out,
                   ncalls>>

\* one pass of the single-stream loop: info['id'] = cnt; block(...); cnt += 1
KvSingle ==
    /\ pc = "single" /\ kv
    /\ it < Len(single_blocks)
    /\ LET b == single_blocks[it + 1]
           seen == [info EXCEPT !.id = Some(cnt)]
       IN  /\ calls' = Append(calls, Invocation("single", b, None, None, x, vec, pe,
                                                seen, info_s, zt_r,
                                                Get(args).inp_target_s))
           /\ info' = BlockCache("single", seen)
           /\ x' = SingleStreamBlock(b, x, vec)
    /\ ops' = Append(ops, "write:id")
    /\ cnt' = cnt + 1
    /\ it' = it + 1
    /\ UNCHANGED <<pc, model, args, img, txt, vec, pe, zt_r, info_s, info0, err, out,
                   ncalls>>

\* img = x[:, txt.shape[1]:, ...]; final layer; return
KvFinish ==
    /\ pc = "single" /\ kv
    /\ it = Len(single_blocks)
    /\ LET s == DropPrefix(x, txt)
           r == LastLayer(s, vec, OutChannels(Get(params)))
       IN  /\ calls' = Append(calls, Invocation("final", 0, None, None, s, vec, None,
                                                None, None, None, None))
           /\ img' = r
           /\ out' = Some(r)
    /\ ops' = ops \o <<"slice", "final_layer">>
    /\ pc' = "done"
    /\ UNCHANGED <<model, args, txt, vec, pe, zt_r, x, cnt, it, info, info_s, info0,
                   err, ncalls>>

Next ==
    \/ Construct
    \/ FluxForward
    \/ FluxDouble
    \/ FluxConcat
    \/ FluxSingle
    \/ FluxFinish
    \/ KvForward
    \/ KvDouble
    \/ KvConcat
    \/ KvSingle
    \/ KvFinish

Spec == Init /\ [][Next]_vars

\* ================================================================ claims
InCall == pc \in {"double", "single", "done", "error"}
P == Get(params)
A == Get(args)
TxtLen == Len(A.txt.toks)
ImgLen == Len(A.img.toks)
Table == EmbedND(A.txt_ids \o A.img_ids)
TargetPass == kv /\ InCall /\ ~IsNone(info0.inverse) /\ ~Get(info0.inverse)
SourcePass == kv /\ InCall /\ ~IsNone(info0.inverse) /\ Get(info0.inverse)
\* the number of earlier invocations of the same kind
Earlier(n) == Cardinality({m \in 1..(n - 1) : calls[m].kind = calls[n].kind})

\* ---- C1
\* rows 0..L-1 of the table, then row L + i for each i of mask_indices
TextPrefixPlusMasked(table, l, mask) ==
    SubSeq(table, 1, l) \o [k \in 1..Len(mask) |-> table[l + mask[k] + 1]]

\* C1: whenever a target pass (info['inverse'] false) comes to derive
\* pe_mask, info['pe_mask'] holds the first L rows of the positional table,
\* L the text length of the call, followed by the rows L + i for i in
\* mask_indices, in mask_indices order.
C1_PeMaskIsTextPrefixPlusMasked ==
    (TargetPass /\ \E k \in 1..Len(ops) : ops[k] = "read:mask_indices")
        => info.pe_mask
             = Some(TextPrefixPlusMasked(Table, TxtLen, Get(info0.mask_indices)))

\* ---- C2
\* C2: in Flux_kv.forward the k-th dual-stream block invocation sees
\* info['id'] = k and the j-th single-stream invocation sees info['id'] = j,
\* whatever info['id'] held when the call began.
C2_BlockSeesOwnIndex ==
    (kv /\ InCall) =>
        \A n \in 1..Len(calls) :
            calls[n].kind \in {"double", "single"}
                => calls[n].info.id = Some(Earlier(n))

C2_Witness ==
    /\ kv /\ pc = "done" /\ ncalls = 2
    /\ info0.id = Some(MaxSingleDepth - 1)
    /\ Len(calls) = MaxDepth + MaxSingleDepth + 1
    /\ calls[MaxDepth + MaxSingleDepth].info.id = Some(MaxSingleDepth - 1)

\* ---- C3
\* C3: with guidance_embed true and guidance None the call fails: no block
\* is invoked, nothing is returned and no guidance embedding is computed
\* from a default.
C3_MissingGuidanceIsFatal ==
    (InCall /\ P.guidance_embed /\ IsNone(A.guidance)) =>
        /\ pc = "error"
        /\ err \in {"ValueError:ndim", "ValueError:guidance"}
        /\ calls = <<>>
        /\ IsNone(out)
        /\ \A k \in 1..Len(ops) : ops[k] # "guidance_in"

C3_Witness ==
    /\ pc = "error" /\ err = "ValueError:guidance"
    /\ P.guidance_embed /\ IsNone(A.guidance)
    /\ A.img.ndim = 3 /\ A.txt.ndim = 3

\* ---- C4
\* the call as it would run had the guidance argument been omitted
Unguided == [A EXCEPT !.guidance = None]
UnguidedPrelude ==
    IF kv THEN KvPrelude(P, Unguided, info0) ELSE FluxPrelude(P, Unguided)

\* the returned tensor written without reference to the guidance argument
UnguidedOutput ==
    [ndim |-> 3, batch |-> A.img.batch, toks |-> A.img.toks, feat |-> P.in_channels,
     hist |-> <<<<"txt_in", 0>>>>
              \o [k \in 1..P.depth |-> <<"double", k - 1>>]
              \o <<<<"img_in", 0>>>>
              \o [k \in 1..P.depth |-> <<"double", k - 1>>]
              \o [k \in 1..P.depth_single_blocks |-> <<"single", k - 1>>]
              \o <<<<"final_layer", 0>>>>,
     cond |-> {TimeTerm(A.timesteps), VectorTerm(A.y)}]

\* C4: with guidance_embed false the guidance argument changes nothing: the
\* error raised, the steps taken, the conditioning vector, the vector handed
\* to every block and the returned tensor are those of the same call made
\* without guidance.
C4_GuidanceIgnoredWhenDisabled ==
    (InCall /\ ~P.guidance_embed) =>
        /\ err = UnguidedPrelude.err
        /\ SubSeq(ops, 1, Len(UnguidedPrelude.ops)) = UnguidedPrelude.ops
        /\ err = "" =>
            /\ vec = UnguidedPrelude.vec
            /\ \A n \in 1..Len(calls) : calls[n].vec = UnguidedPrelude.vec
            /\ pc = "done" => out = Some(UnguidedOutput)

C4_Witness ==
    /\ pc = "done" /\ ~P.guidance_embed /\ ~IsNone(A.guidance)
    /\ Len(calls) > 1

\* ---- C5
ValidConfig(p) ==
    /\ p.num_heads # 0
    /\ p.hidden_size % p.num_heads = 0
    /\ SumSeq(p.axes_dim) * p.num_heads = p.hidden_size

\* C5: construction succeeds exactly for the configurations with
\* hidden_size % num_heads = 0 and sum(axes_dim) = hidden_size / num_heads;
\* a failed construction has created no embedder, projection or block.
C5_ConstructionValidatesConfig ==
    pc # "new" =>
        /\ (pc # "ctor_error") <=> ValidConfig(P)
        /\ pc = "ctor_error" =>
            /\ err \in {"ZeroDivisionError", "ValueError:heads", "ValueError:axes"}
            /\ created = <<>> /\ double_blocks = <<>> /\ single_blocks = <<>>

C5_Witness ==
    /\ pc = "ctor_error" /\ err = "ValueError:axes"
    /\ P.hidden_size % P.num_heads = 0

\* ---- C6
\* C6: a call whose image or text tensor is not rank-3 fails before any
\* step of the transformer: nothing is projected, embedded or invoked, and
\* info is left as the caller passed it.
C6_RankCheckedFirst ==
    (InCall /\ (A.img.ndim # 3 \/ A.txt.ndim # 3)) =>
        /\ pc = "error" /\ err = "ValueError:ndim"
        /\ ops = <<>> /\ calls = <<>> /\ IsNone(out)
        /\ kv => info = info0

C6_Witness ==
    /\ kv /\ pc = "error" /\ err = "ValueError:ndim" /\ ncalls = 2
    /\ A.img.ndim = 3 /\ A.txt.ndim # 3
    /\ info.id = Some(MaxSingleDepth - 1) /\ ~IsNone(info.pe_mask)

\* ---- C7
MissingProtocolInput ==
    \/ IsNone(info0.inverse)
    \/ ~Get(info0.inverse) /\ (IsNone(info0.mask_indices) \/ IsNone(A.zt_r))

\* C7: a Flux_kv.forward call without info['inverse'], or a target pass
\* without info['mask_indices'] or without zt_r, fails: no block runs,
\* nothing is returned, info['pe_mask'] and info['id'] are not written.
C7_MissingProtocolInputIsFatal ==
    (kv /\ InCall /\ MissingProtocolInput) =>
        /\ pc = "error" /\ err # ""
        /\ calls = <<>> /\ IsNone(out)
        /\ \A k \in 1..Len(ops) : ops[k] \notin {"write:pe_mask", "write:id"}
        /\ info.pe_mask = info0.pe_mask /\ info.id = info0.id

C7_Witness ==
    /\ kv /\ pc = "error" /\ err = "TypeError:zt_r"
    /\ ~IsNone(info0.mask_indices) /\ ~IsNone(info0.pe_mask)

\* ---- C8
\* C8: in a successful call every fused sequence is the text tokens followed
\* by the image tokens, the final projection receives exactly the image
\* tokens, position by position and with the input's batch size, and the
\* output has them too, with in_channels features.
C8_OutputAlignedWithImage ==
    (InCall /\ err = "") =>
        /\ \A n \in 1..Len(calls) :
            /\ calls[n].kind = "single" =>
                /\ calls[n].x.toks = A.txt.toks \o A.img.toks
                /\ calls[n].x.batch = A.img.batch
            /\ calls[n].kind = "final" =>
                /\ calls[n].x.toks = A.img.toks
                /\ calls[n].x.batch = A.img.batch
        /\ pc = "done" =>
            /\ Get(out).toks = A.img.toks
            /\ Get(out).batch = A.img.batch
            /\ Get(out).ndim = 3
            /\ Get(out).feat = A.img.feat

C8_Witness ==
    /\ kv /\ pc = "done" /\ ~Get(info0.inverse)
    /\ TxtLen = PrefixLen /\ ImgLen = MaxImgLen /\ A.img.batch = 2
    /\ Len(calls) = MaxDepth + MaxSingleDepth + 1

\* ---- C9
\* the streams the first block of each loop must receive
ProjectedImg == Linear("img_in", A.img, P.hidden_size)
ProjectedTxt == Linear("txt_in", A.txt, P.hidden_size)
AfterDouble ==
    IF P.depth = 0 THEN [img |-> ProjectedImg, txt |-> ProjectedTxt]
    ELSE DoubleStreamBlock(calls[P.depth].blk, calls[P.depth].img,
                           calls[P.depth].txt, calls[P.depth].vec)

\* C9: in a successful call the invocations are the dual-stream blocks in
\* list order, each fed the pair the previous one returned, then the
\* single-stream blocks in list order on the sequence fused after the last
\* dual-stream block, then the final projection, once; every block gets the
\* one conditioning vector and the one positional table of the call.
C9_BlocksRunOnceInOrder ==
    (InCall /\ err = "") =>
        LET D == P.depth
            S == P.depth_single_blocks
            N == Len(calls)
        IN  /\ N <= D + S + 1
            /\ pc = "done" <=> N = D + S + 1
            /\ pc = "single" => (N >= D /\ N <= D + S)
            /\ pc = "double" => N <= D
            /\ vec = CondVec(P.guidance_embed, A.timesteps, A.guidance, A.y).vec
            /\ pe = Table
            /\ \A n \in 1..N :
                /\ calls[n].vec = vec
                /\ n <= D =>
                    /\ calls[n].kind = "double" /\ calls[n].blk = n - 1
                    /\ calls[n].pe = pe
                    /\ n = 1 => /\ calls[n].img = ProjectedImg
                                /\ calls[n].txt = ProjectedTxt
                    /\ n > 1 =>
                        LET r == DoubleStreamBlock(calls[n - 1].blk, calls[n - 1].img,
                                                   calls[n - 1].txt, vec)
                        IN  calls[n].img = r.img /\ calls[n].txt = r.txt
                /\ (n > D /\ n <= D + S) =>
                    /\ calls[n].kind = "single" /\ calls[n].blk = n - D - 1
                    /\ calls[n].pe = pe
                    /\ n = D + 1 => calls[n].x = Cat(AfterDouble.txt, AfterDouble.img)
                    /\ n > D + 1 =>
                        calls[n].x = SingleStreamBlock(calls[n - 1].blk, calls[n - 1].x, vec)
                /\ n = D + S + 1 => calls[n].kind = "final"

C9_Witness ==
    /\ ~kv /\ pc = "done" /\ P.depth = MaxDepth /\ P.depth_single_blocks = MaxSingleDepth
    /\ Len(calls) = MaxDepth + MaxSingleDepth + 1
    /\ calls[MaxDepth + MaxSingleDepth + 1].kind = "final"

\* ---- C10
TransformerSteps ==
    {"img_in", "time_in", "guidance_in", "vector_in", "txt_in", "cat_ids",
     "pe_embedder", "read:inverse", "zt_in", "read:mask_indices", "write:pe_mask",
     "write:id", "cat", "slice", "final_layer"}

\* C10: in Flux_kv.forward the transformer writes info['id'] and, on a
\* target pass only, info['pe_mask']; on a source pass pe_mask stays as the
\* caller supplied it and zt_r reaches the blocks unprojected; info_s,
\* info['inverse'] and info['mask_indices'] are never written and
\* inp_target_s reaches every block unchanged.
C10_TransformerWritesOnlyIdAndPeMask ==
    (kv /\ InCall) =>
        /\ \A k \in 1..Len(ops) : ops[k] \in TransformerSteps
        /\ info.inverse = info0.inverse
        /\ info.mask_indices = info0.mask_indices
        /\ info_s = InfoS
        /\ \A n \in 1..Len(calls) :
            calls[n].kind # "final" =>
                /\ calls[n].inp_target_s = A.inp_target_s
                /\ calls[n].info_s = InfoS
        /\ ~TargetPass =>
            /\ info.pe_mask = info0.pe_mask
            /\ \A k \in 1..Len(ops) : ops[k] \notin {"write:pe_mask", "zt_in"}
            /\ err = "" => zt_r = A.zt_r
            /\ \A n \in 1..Len(calls) :
                calls[n].kind # "final" =>
                    /\ calls[n].zt_r = A.zt_r
                    /\ calls[n].info.pe_mask = info0.pe_mask

C10_Witness ==
    /\ SourcePass /\ pc = "done" /\ ~IsNone(A.zt_r)
    /\ info.pe_mask = Some(<<99>>)
    /\ Len(calls) = MaxDepth + MaxSingleDepth + 1
    /\ calls[1].zt_r = A.zt_r

====
